---- MODULE Spec2Model ----
(***************************************************************************)
(* Model of the relay endpoint of src/app.py: the handler proxy() that     *)
(* validates a JSON description of an HTTP request, issues one outbound    *)
(* call through requests.request and normalises the outcome into a JSON    *)
(* envelope.                                                               *)
(*                                                                         *)
(* Strings are sequences of one-character strings, bytes are integers in   *)
(* 0..255, JSON values are tagged records.                                 *)
(***************************************************************************)
EXTENDS Integers, Sequences, FiniteSets, TLC

VARIABLES pc, req, call, ncalls, upstream, reply, nreplies

vars == <<pc, req, call, ncalls, upstream, reply, nreplies>>

(***************************************************************************)
(* Characters and strings                                                  *)
(***************************************************************************)
LowerChars == <<"a","b","c","d","e","f","g","h","i","j","k","l","m",
                "n","o","p","q","r","s","t","u","v","w","x","y","z">>

UpperChars == <<"A","B","C","D","E","F","G","H","I","J","K","L","M",
                "N","O","P","Q","R","S","T","U","V","W","X","Y","Z">>

DigitChars == <<"0","1","2","3","4","5","6","7","8","9">>

Range(s) == { s[i] : i \in 1..Len(s) }

IndexOf(s, c) == CHOOSE i \in 1..Len(s) : s[i] = c

\* str.upper() / str.lower(), one character
UpperChar(c) == IF c \in Range(LowerChars) THEN UpperChars[IndexOf(LowerChars, c)] ELSE c

LowerChar(c) == IF c \in Range(UpperChars) THEN LowerChars[IndexOf(UpperChars, c)] ELSE c

Upper(s) == [i \in 1..Len(s) |-> UpperChar(s[i])]

Lower(s) == [i \in 1..Len(s) |-> LowerChar(s[i])]

\* code point order of the characters that occur in the method names
CharOrd(c) == IF c \in Range(UpperChars) THEN 64 + IndexOf(UpperChars, c)
              ELSE IF c \in Range(LowerChars) THEN 96 + IndexOf(LowerChars, c)
              ELSE IF c \in Range(DigitChars) THEN 47 + IndexOf(DigitChars, c)
              ELSE 0

\* s < t in Python's string order
RECURSIVE StrLess(_, _)
StrLess(s, t) ==
    IF t = <<>> THEN FALSE
    ELSE IF s = <<>> THEN TRUE
    ELSE IF CharOrd(Head(s)) # CharOrd(Head(t)) THEN CharOrd(Head(s)) < CharOrd(Head(t))
    ELSE StrLess(Tail(s), Tail(t))

\* sorted(S) for a set of strings
RECURSIVE Sorted(_)
Sorted(S) ==
    IF S = {} THEN <<>>
    ELSE LET m == CHOOSE x \in S : \A y \in S \ {x} : StrLess(x, y)
         IN  <<m>> \o Sorted(S \ {m})

RECURSIVE Concat(_)
Concat(ss) == IF ss = <<>> THEN <<>> ELSE Head(ss) \o Concat(Tail(ss))

(***************************************************************************)
(* JSON values as Python sees them after request.get_json()                *)
(***************************************************************************)
JNull == [t |-> "null"]

JTrue == [t |-> "bool", b |-> TRUE]

JFalse == [t |-> "bool", b |-> FALSE]

JNum(n) == [t |-> "num", n |-> n]

JStr(s) == [t |-> "str", s |-> s]

JArr(a) == [t |-> "arr", a |-> a]

\* an object is the sequence of its <<key, value>> pairs, in insertion order
JObj(o) == [t |-> "obj", o |-> o]

\* the result of dict.get on a key that is not there, before the default applies
Absent == [t |-> "absent"]

\* isinstance(v, str), isinstance(v, dict)
IsStr(v) == v.t = "str"

IsDict(v) == v.t = "obj"

\* Python truthiness: None, False, 0, "", [] and {} are falsy
Truthy(v) ==
    CASE v.t = "null" -> FALSE
      [] v.t = "bool" -> v.b
      [] v.t = "num"  -> v.n # 0
      [] v.t = "str"  -> v.s # <<>>
      [] v.t = "arr"  -> v.a # <<>>
      [] v.t = "obj"  -> v.o # <<>>

\* the Python expression  a or b
Or(a, b) == IF Truthy(a) THEN a ELSE b

HasKey(obj, k) == \E i \in 1..Len(obj.o) : obj.o[i][1] = k

Lookup(obj, k) == obj.o[CHOOSE i \in 1..Len(obj.o) : obj.o[i][1] = k][2]

\* payload.get(k) and payload.get(k, default)
Get(obj, k) == IF HasKey(obj, k) THEN Lookup(obj, k) ELSE JNull

GetDefault(obj, k, d) == IF HasKey(obj, k) THEN Lookup(obj, k) ELSE d

(***************************************************************************)
(* urllib.parse.urlparse, as far as is_valid_target_url reads its result   *)
(***************************************************************************)
SchemeChars == Range(LowerChars) \cup Range(UpperChars) \cup Range(DigitChars) \cup {"+", "-", "."}

\* url.find(c), 1-based; 0 when c does not occur
Find(s, cs) == IF \E i \in 1..Len(s) : s[i] \in cs
               THEN CHOOSE i \in 1..Len(s) : s[i] \in cs /\ \A j \in 1..(i-1) : s[j] \notin cs
               ELSE 0

HasScheme(url) ==
    LET i == Find(url, {":"})
    IN  /\ i > 1
        /\ url[1] \in Range(LowerChars) \cup Range(UpperChars)
        /\ \A j \in 1..(i-1) : url[j] \in SchemeChars

\* urlparse(url).scheme: the text before the first colon, lower-cased
Scheme(url) == IF HasScheme(url) THEN Lower(SubSeq(url, 1, Find(url, {":"}) - 1)) ELSE <<>>

AfterScheme(url) == IF HasScheme(url) THEN SubSeq(url, Find(url, {":"}) + 1, Len(url)) ELSE url

\* urlparse(url).netloc: what follows "//" up to the next "/", "?" or "#"
Netloc(url) ==
    LET r == AfterScheme(url)
    IN  IF Len(r) >= 2 /\ r[1] = "/" /\ r[2] = "/"
        THEN LET rest == SubSeq(r, 3, Len(r))
                 k    == Find(rest, {"/", "?", "#"})
             IN  IF k = 0 THEN rest ELSE SubSeq(rest, 1, k - 1)
        ELSE <<>>

sHTTP == <<"h","t","t","p">>

sHTTPS == <<"h","t","t","p","s">>

is_valid_target_url(url) == Scheme(url) \in {sHTTP, sHTTPS} /\ Netloc(url) # <<>>

(***************************************************************************)
(* float(x) on a JSON value                                                *)
(***************************************************************************)
RECURSIVE DigitsValue(_)
DigitsValue(s) == IF s = <<>> THEN 0
                  ELSE (10 * DigitsValue(SubSeq(s, 1, Len(s) - 1)))
                       + (IndexOf(DigitChars, s[Len(s)]) - 1)

Finite(n) == [exc |-> "none", kind |-> "finite", n |-> n]

FloatError(e) == [exc |-> e, kind |-> "none", n |-> 0]

\* float() of a string: an optionally signed decimal integer, "nan", "inf";
\* anything else raises ValueError
FloatOfStr(s) ==
    LET neg  == s # <<>> /\ s[1] = "-"
        body == IF s # <<>> /\ s[1] \in {"-", "+"} THEN Tail(s) ELSE s
        sign == IF neg THEN -1 ELSE 1
    IN  IF body # <<>> /\ \A i \in 1..Len(body) : body[i] \in Range(DigitChars)
        THEN Finite(sign * DigitsValue(body))
        ELSE IF Lower(body) = <<"n","a","n">>
        THEN [exc |-> "none", kind |-> "nan", n |-> 0]
        ELSE IF Lower(body) \in {<<"i","n","f">>, <<"i","n","f","i","n","i","t","y">>}
        THEN [exc |-> "none", kind |-> "inf", n |-> sign]
        ELSE FloatError("ValueError")

FloatOf(v) ==
    CASE v.t = "num"  -> Finite(v.n)
      [] v.t = "bool" -> Finite(IF v.b THEN 1 ELSE 0)
      [] v.t = "str"  -> FloatOfStr(v.s)
      [] OTHER        -> FloatError("TypeError")

\* bool(x)
BoolOf(v) == Truthy(v)

(***************************************************************************)
(* json.dumps, which requests applies to the json= argument                *)
(***************************************************************************)
RECURSIVE NatDigits(_)
NatDigits(n) == IF n < 10 THEN <<DigitChars[n + 1]>>
                ELSE NatDigits(n \div 10) \o <<DigitChars[(n % 10) + 1]>>

IntText(n) == IF n < 0 THEN <<"-">> \o NatDigits(-n) ELSE NatDigits(n)

EscapeChar(c) == IF c \in {"\"", "\\"} THEN <<"\\", c>> ELSE <<c>>

Quote(s) == <<"\"">> \o Concat([i \in 1..Len(s) |-> EscapeChar(s[i])]) \o <<"\"">>

\* ", ".join(parts)
RECURSIVE Join(_)
Join(parts) == IF parts = <<>> THEN <<>>
               ELSE IF Len(parts) = 1 THEN parts[1]
               ELSE parts[1] \o <<",", " ">> \o Join(Tail(parts))

RECURSIVE Dumps(_)
Dumps(v) ==
    CASE v.t = "null" -> <<"n","u","l","l">>
      [] v.t = "bool" -> IF v.b THEN <<"t","r","u","e">> ELSE <<"f","a","l","s","e">>
      [] v.t = "num"  -> IntText(v.n)
      [] v.t = "str"  -> Quote(v.s)
      [] v.t = "arr"  -> <<"[">> \o Join([i \in 1..Len(v.a) |-> Dumps(v.a[i])]) \o <<"]">>
      [] v.t = "obj"  -> <<"{">>
                         \o Join([i \in 1..Len(v.o) |->
                                    Quote(v.o[i][1]) \o <<":", " ">> \o Dumps(v.o[i][2])])
                         \o <<"}">>

(***************************************************************************)
(* Controls / limits                                                       *)
(***************************************************************************)
sGET == <<"G","E","T">>

sPOST == <<"P","O","S","T">>

sPUT == <<"P","U","T">>

sPATCH == <<"P","A","T","C","H">>

sDELETE == <<"D","E","L","E","T","E">>

sHEAD == <<"H","E","A","D">>

sOPTIONS == <<"O","P","T","I","O","N","S">>

ALLOWED_METHODS == {sGET, sPOST, sPUT, sPATCH, sDELETE, sHEAD, sOPTIONS}

MAX_INCOMING_PAYLOAD_BYTES == 2 * 1024 * 1024

\* The cap on the returned body.  The program's value is 5 * 1024 * 1024; the
\* model scales it down so that bodies at, under and over the cap can be
\* enumerated byte by byte.
MAX_RESPONSE_BYTES == 3

(***************************************************************************)
(* The keys of the request JSON                                            *)
(***************************************************************************)
kURL == <<"U","R","L">>

kurl == <<"u","r","l">>

kmethod == <<"m","e","t","h","o","d">>

kheader == <<"h","e","a","d","e","r">>

kheaders == <<"h","e","a","d","e","r","s">>

kdata == <<"d","a","t","a">>

ktimeout == <<"t","i","m","e","o","u","t">>

kverify == <<"v","e","r","i","f","y">>

kallow_redirects == <<"a","l","l","o","w","_","r","e","d","i","r","e","c","t","s">>

(***************************************************************************)
(* The incoming request and what the handler answers                       *)
(***************************************************************************)
\* request.content_length is None
NoLength == -1

\* a body that json.loads rejects
Malformed == [t |-> "malformed"]

NoOut == [present |-> FALSE]

\* a response of the relay: status, the "error" and "details" members of an
\* error JSON (allowed is the list printed in the 405 message), the Python
\* exception behind a 500, and the success envelope
Response(status, error, allowed, details, exc, out) ==
    [status |-> status, error |-> error, allowed |-> allowed,
     details |-> details, exc |-> exc, out |-> out]

ErrorResponse(status, error) == Response(status, error, <<>>, "", "", NoOut)

\* an exception no handler catches: Flask answers 500
Unhandled(exc) == Response(500, "Internal Server Error", <<>>, "", exc, NoOut)

Rejected(resp) == [kind |-> "reply", reply |-> resp]

Forward(method, target, kwargs) ==
    [kind |-> "call", method |-> method, url |-> target, kwargs |-> kwargs]

\* lines 98-105: which of data= / json= the outbound call gets
BodyKwargsNoStringCase(data) ==
    IF data # JNull THEN [data |-> Absent, json |-> data]
    ELSE [data |-> Absent, json |-> Absent]

BodyKwargs(data) ==
    IF data # JNull
    THEN IF IsStr(data) THEN [data |-> data, json |-> Absent]
         ELSE [data |-> Absent, json |-> data]
    ELSE [data |-> Absent, json |-> Absent]

\* lines 91-96
ReqKwargs(headers, timeout, verify, allow_redirects, data) ==
    [headers |-> headers, timeout |-> timeout, verify |-> verify,
     allow_redirects |-> allow_redirects,
     data |-> BodyKwargs(data).data, json |-> BodyKwargs(data).json]

\* lines 79-105, once every field is extracted
Validate(target, method, headers, data, timeout, verify, allow_redirects) ==
    IF ~Truthy(target) \/ ~IsStr(target) \/ ~is_valid_target_url(target.s)
    THEN Rejected(ErrorResponse(400, "invalid or missing URL"))
    ELSE IF method \notin ALLOWED_METHODS
    THEN Rejected(Response(405, "method not allowed. allowed: ",
                           Sorted(ALLOWED_METHODS), "", "", NoOut))
    ELSE IF ~IsDict(headers)
    THEN Rejected(ErrorResponse(400, "header must be a JSON object/dict"))
    ELSE Forward(method, target.s,
                 ReqKwargs(headers, timeout, verify, allow_redirects, data))

\* lines 68-77: the fields of the payload, in the order the code reads them
Extract(payload) ==
    LET target == Or(Get(payload, kURL), Get(payload, kurl))
        m      == Or(Get(payload, kmethod), JStr(sGET))
    IN  IF ~IsStr(m) THEN Rejected(Unhandled("AttributeError"))
        ELSE
        LET method  == Upper(m.s)
            headers == Or(Or(Get(payload, kheader), Get(payload, kheaders)), JObj(<<>>))
            data    == GetDefault(payload, kdata, JNull)
            timeout == FloatOf(GetDefault(payload, ktimeout, JNum(10)))
        IN  IF timeout.exc # "none" THEN Rejected(Unhandled(timeout.exc))
            ELSE
            LET verify          == GetDefault(payload, kverify, JTrue)
                allow_redirects == BoolOf(GetDefault(payload, kallow_redirects, JTrue))
            IN  Validate(target, method, headers, data, timeout, verify, allow_redirects)

\* lines 57-105: proxy() up to the outbound call
Prepare(r) ==
    IF r.content_length # NoLength /\ r.content_length > MAX_INCOMING_PAYLOAD_BYTES
    THEN Rejected(ErrorResponse(413, "Payload too large"))
    ELSE IF ~r.is_json
    THEN Rejected(ErrorResponse(400, "expected application/json"))
    ELSE IF r.body = Malformed
    THEN Rejected(ErrorResponse(400, "Bad Request"))
    ELSE IF ~IsDict(r.body)
    THEN Rejected(Unhandled("AttributeError"))
    ELSE Extract(r.body)

(***************************************************************************)
(* bytes.decode("utf-8") and str.encode("utf-8")                           *)
(***************************************************************************)
IsCont(b) == 128 <= b /\ b <= 191

\* the length of the well-formed UTF-8 sequence that starts b; 0 when there is none
Utf8SeqLen(b) ==
    LET b1 == b[1]
        n  == Len(b)
    IN  IF b1 <= 127 THEN 1
        ELSE IF 194 <= b1 /\ b1 <= 223
        THEN IF n >= 2 /\ IsCont(b[2]) THEN 2 ELSE 0
        ELSE IF 224 <= b1 /\ b1 <= 239
        THEN IF /\ n >= 3
                /\ IsCont(b[2])
                /\ IsCont(b[3])
                /\ (b1 = 224 => b[2] >= 160)
                /\ (b1 = 237 => b[2] <= 159)
             THEN 3 ELSE 0
        ELSE IF 240 <= b1 /\ b1 <= 244
        THEN IF /\ n >= 4
                /\ IsCont(b[2])
                /\ IsCont(b[3])
                /\ IsCont(b[4])
                /\ (b1 = 240 => b[2] >= 144)
                /\ (b1 = 244 => b[2] <= 143)
             THEN 4 ELSE 0
        ELSE 0

CodePoint(b, n) ==
    CASE n = 1 -> b[1]
      [] n = 2 -> ((b[1] % 32) * 64) + (b[2] % 64)
      [] n = 3 -> ((b[1] % 16) * 4096) + ((b[2] % 64) * 64) + (b[3] % 64)
      [] n = 4 -> ((b[1] % 8) * 262144) + ((b[2] % 64) * 4096)
                  + ((b[3] % 64) * 64) + (b[4] % 64)

\* content.decode("utf-8"): ok is FALSE where Python raises UnicodeDecodeError
RECURSIVE Utf8Decode(_)
Utf8Decode(b) ==
    IF b = <<>> THEN [ok |-> TRUE, text |-> <<>>]
    ELSE LET n == Utf8SeqLen(b)
         IN  IF n = 0 THEN [ok |-> FALSE, text |-> <<>>]
             ELSE LET rest == Utf8Decode(SubSeq(b, n + 1, Len(b)))
                  IN  [ok |-> rest.ok,
                       text |-> IF rest.ok THEN <<CodePoint(b, n)>> \o rest.text ELSE <<>>]

Utf8EncodeChar(cp) ==
    IF cp < 128 THEN <<cp>>
    ELSE IF cp < 2048 THEN <<192 + (cp \div 64), 128 + (cp % 64)>>
    ELSE IF cp < 65536
    THEN <<224 + (cp \div 4096), 128 + ((cp \div 64) % 64), 128 + (cp % 64)>>
    ELSE <<240 + (cp \div 262144), 128 + ((cp \div 4096) % 64),
           128 + ((cp \div 64) % 64), 128 + (cp % 64)>>

Utf8Encode(text) == Concat([i \in 1..Len(text) |-> Utf8EncodeChar(text[i])])

(***************************************************************************)
(* base64.b64encode and base64.b64decode                                   *)
(***************************************************************************)
B64Alphabet == UpperChars \o LowerChars \o DigitChars \o <<"+", "/">>

B64Char(n) == B64Alphabet[n + 1]

B64Value(c) == IndexOf(B64Alphabet, c) - 1

RECURSIVE B64Encode(_)
B64Encode(b) ==
    IF b = <<>> THEN <<>>
    ELSE IF Len(b) = 1
    THEN <<B64Char(b[1] \div 4), B64Char((b[1] % 4) * 16), "=", "=">>
    ELSE IF Len(b) = 2
    THEN <<B64Char(b[1] \div 4), B64Char(((b[1] % 4) * 16) + (b[2] \div 16)),
           B64Char((b[2] % 16) * 4), "=">>
    ELSE <<B64Char(b[1] \div 4), B64Char(((b[1] % 4) * 16) + (b[2] \div 16)),
           B64Char(((b[2] % 16) * 4) + (b[3] \div 64)), B64Char(b[3] % 64)>>
         \o B64Encode(SubSeq(b, 4, Len(b)))

RECURSIVE B64Decode(_)
B64Decode(s) ==
    IF Len(s) < 4 THEN <<>>
    ELSE LET v1 == B64Value(s[1])
             v2 == B64Value(s[2])
             o1 == (v1 * 4) + (v2 \div 16)
         IN  IF s[3] = "=" THEN <<o1>>
             ELSE LET v3 == B64Value(s[3])
                      o2 == ((v2 % 16) * 16) + (v3 \div 4)
                  IN  IF s[4] = "=" THEN <<o1, o2>>
                      ELSE <<o1, o2, ((v3 % 4) * 64) + B64Value(s[4])>>
                           \o B64Decode(SubSeq(s, 5, Len(s)))

(***************************************************************************)
(* Response normalisation, lines 114-149                                   *)
(***************************************************************************)
\* lines 115-122
TruncateAtOrOver(content) ==
    IF Len(content) >= MAX_RESPONSE_BYTES
    THEN [truncated |-> TRUE, content_to_return |-> SubSeq(content, 1, MAX_RESPONSE_BYTES)]
    ELSE [truncated |-> FALSE, content_to_return |-> content]

Truncate(content) ==
    IF Len(content) > MAX_RESPONSE_BYTES
    THEN [truncated |-> TRUE, content_to_return |-> SubSeq(content, 1, MAX_RESPONSE_BYTES)]
    ELSE [truncated |-> FALSE, content_to_return |-> content]

\* lines 124-131
EncodeBodyLatin1(content_to_return) ==
    [is_base64 |-> FALSE, body_field |-> content_to_return]

EncodeBody(content_to_return) ==
    LET d == Utf8Decode(content_to_return)
    IN  IF d.ok THEN [is_base64 |-> FALSE, body_field |-> d.text]
        ELSE [is_base64 |-> TRUE, body_field |-> B64Encode(content_to_return)]

\* lines 134-138
hop_by_hop == {
    <<"c","o","n","n","e","c","t","i","o","n">>,
    <<"k","e","e","p","-","a","l","i","v","e">>,
    <<"p","r","o","x","y","-","a","u","t","h","e","n","t","i","c","a","t","e">>,
    <<"p","r","o","x","y","-","a","u","t","h","o","r","i","z","a","t","i","o","n">>,
    <<"t","e">>,
    <<"t","r","a","i","l","e","r","s">>,
    <<"t","r","a","n","s","f","e","r","-","e","n","c","o","d","i","n","g">>,
    <<"u","p","g","r","a","d","e">> }

KeepHeader(h) == Lower(h[1]) \notin hop_by_hop

StripHopByHop(headers) == SelectSeq(headers, KeepHeader)

\* lines 114-147: the envelope built from the upstream response
Normalize(resp) ==
    LET t == Truncate(resp.content)
        e == EncodeBody(t.content_to_return)
    IN  [present |-> TRUE,
         status_code |-> resp.status_code,
         headers |-> StripHopByHop(resp.headers),
         is_base64 |-> e.is_base64,
         body |-> e.body_field,
         truncated |-> t.truncated,
         reason |-> resp.reason]

\* line 149
Success(resp) == Response(200, "", <<>>, "", "", Normalize(resp))

\* the classes  except requests.RequestException  catches (line 110)
RequestExceptions == {"ConnectionError", "SSLError", "Timeout"}

\* lines 110-112, and the 500 of an exception that is no RequestException
FailureAs500(e) == Unhandled(e.cls)

Failure(e) ==
    IF e.cls \in RequestExceptions
    THEN Response(502, "request_failed", <<>>, e.text, "", NoOut)
    ELSE Unhandled(e.cls)

(***************************************************************************)
(* The body requests.request sends for the data= / json= arguments of      *)
(* line 109: a data string as it is, a json value through json.dumps       *)
(***************************************************************************)
NoBody == [present |-> FALSE, text |-> <<>>]

OutboundBody(kwargs) ==
    IF kwargs.data # Absent THEN [present |-> TRUE, text |-> kwargs.data.s]
    ELSE IF kwargs.json # Absent THEN [present |-> TRUE, text |-> Dumps(kwargs.json)]
    ELSE NoBody

(***************************************************************************)
(* State                                                                   *)
(*   pc        where the relay call stands: "idle", "forwarding" (inside   *)
(*             requests.request, line 109) or "responded"                  *)
(*   req       the incoming request being served                           *)
(*   call      the arguments of the outbound call                          *)
(*   ncalls    how often requests.request was invoked for this relay call  *)
(*   upstream  what the outbound call produced                             *)
(*   reply     the response handed back to the caller                      *)
(*   nreplies  how many responses this relay call produced                 *)
(***************************************************************************)
NoReq == [content_length |-> NoLength, is_json |-> FALSE, body |-> Absent]

NoCall == [kind |-> "none"]

NoUpstream == [kind |-> "none"]

NoReply == Response(0, "", <<>>, "", "", NoOut)

Init ==
    /\ pc = "idle"
    /\ req = NoReq
    /\ call = NoCall
    /\ ncalls = 0
    /\ upstream = NoUpstream
    /\ reply = NoReply
    /\ nreplies = 0

\* proxy(), lines 57-109: a rejection is answered at once, anything else
\* enters requests.request
Proxy(r) ==
    /\ pc = "idle"
    /\ req' = r
    /\ LET p == Prepare(r)
       IN  IF p.kind = "reply"
           THEN /\ pc' = "responded"
                /\ reply' = p.reply
                /\ nreplies' = nreplies + 1
                /\ UNCHANGED <<call, ncalls>>
           ELSE /\ pc' = "forwarding"
                /\ call' = p
                /\ ncalls' = ncalls + 1
                /\ UNCHANGED <<reply, nreplies>>
    /\ UNCHANGED upstream

\* requests.request returns; lines 114-149
Returns(resp) ==
    /\ pc = "forwarding"
    /\ upstream' = [kind |-> "response", resp |-> resp]
    /\ reply' = Success(resp)
    /\ nreplies' = nreplies + 1
    /\ pc' = "responded"
    /\ UNCHANGED <<req, call, ncalls>>

\* urllib3 refuses a timeout that is not above zero with a ValueError, which
\* requests does not wrap; the network, TLS and timeout failures are
\* RequestExceptions
CanRaise(e) ==
    \/ e.cls \in RequestExceptions
    \/ /\ e.cls = "ValueError"
       /\ call.kwargs.timeout.kind = "finite"
       /\ call.kwargs.timeout.n <= 0

\* requests.request raises; lines 110-112
Raises(e) ==
    /\ pc = "forwarding"
    /\ CanRaise(e)
    /\ upstream' = [kind |-> "exception", cls |-> e.cls, text |-> e.text]
    /\ reply' = Failure(e)
    /\ nreplies' = nreplies + 1
    /\ pc' = "responded"
    /\ UNCHANGED <<req, call, ncalls>>

\* the handler has returned; the next relay call starts from nothing
NextCall ==
    /\ pc = "responded"
    /\ pc' = "idle"
    /\ req' = NoReq
    /\ call' = NoCall
    /\ ncalls' = 0
    /\ upstream' = NoUpstream
    /\ reply' = NoReply
    /\ nreplies' = 0

(***************************************************************************)
(* Inputs                                                                  *)
(***************************************************************************)
uNotAUrl == <<"n","o","t","-","a","-","u","r","l">>

uFtp == <<"f","t","p",":","/","/","h">>

uNoHost == <<"h","t","t","p",":","/","/">>

uOneSlash == <<"h","t","t","p",":","/","h">>

uHttp == <<"h","t","t","p",":","/","/","h">>

uHttpsUpper == <<"H","T","T","P","S",":","/","/","h","/","a">>

Present(p) == p[2] # Absent

\* the JSON object with the given members, Absent ones left out
MkPayload(URL, url, method, header, headers, data, timeout, verify, allow_redirects) ==
    JObj(SelectSeq(<< <<kURL, URL>>, <<kurl, url>>, <<kmethod, method>>,
                      <<kheader, header>>, <<kheaders, headers>>, <<kdata, data>>,
                      <<ktimeout, timeout>>, <<kverify, verify>>,
                      <<kallow_redirects, allow_redirects>> >>, Present))

URLValues == {Absent, JStr(<<>>), JNum(5), JStr(uNotAUrl), JStr(uFtp), JStr(uNoHost),
              JStr(uOneSlash), JStr(uHttp)}

urlValues == {Absent, JStr(uHttpsUpper)}

MethodValues == {Absent, JStr(<<>>), JStr(<<"g","e","t">>), JStr(<<"T","R","A","C","E">>),
                 JNum(5)}

HeaderValues == {Absent, JStr(<<>>), JArr(<<>>), JObj(<<>>),
                 JObj(<< <<<<"a">>, JStr(<<"b">>)>> >>),
                 JStr(<<"n","o">>)}

HeadersValues == {Absent, JObj(<< <<<<"x">>, JStr(<<"y">>)>> >>)}

TimeoutValues == {Absent, JNum(0), JNum(-1), JStr(<<"a","b","c">>), JStr(<<"n","a","n">>)}

DataValues == {Absent, JNull, JStr(<<>>), JStr(<<"a">>), JNum(0), JNum(-12), JFalse, JTrue,
               JObj(<<>>), JArr(<<>>),
               JObj(<< <<<<"a">>, JNum(1)>>, <<<<"b">>, JStr(<<"\"">>)>> >>),
               JArr(<<JStr(<<"a">>), JNull>>)}

\* payloads that differ in the fields the validation reads
Payloads ==
    { MkPayload(U, u, m, h, hs, d, t, Absent, Absent) :
        U \in URLValues, u \in urlValues, m \in MethodValues, h \in HeaderValues,
        hs \in HeadersValues, d \in {Absent}, t \in TimeoutValues }

\* payloads that differ in the body to forward
BodyPayloads ==
    { MkPayload(U, Absent, m, h, Absent, d, Absent, v, a) :
        U \in {JStr(uHttp), JStr(uNotAUrl)},
        m \in {Absent, JStr(<<"p","o","s","t">>)},
        h \in {Absent, JObj(<< <<<<"a">>, JStr(<<"b">>)>> >>)},
        d \in DataValues,
        v \in {Absent, JFalse},
        a \in {Absent, JNum(0)} }

\* what can arrive in place of a JSON object
Bodies == {Malformed, JNull, JArr(<<>>), JStr(<<"x">>), JNum(1),
           MkPayload(JStr(uHttp), Absent, Absent, Absent, Absent, Absent, Absent, Absent, Absent),
           MkPayload(JStr(uNotAUrl), Absent, Absent, Absent, Absent, Absent, Absent, Absent, Absent)}

Lengths == {NoLength, 0, MAX_INCOMING_PAYLOAD_BYTES, MAX_INCOMING_PAYLOAD_BYTES + 1}

Requests ==
    { [content_length |-> c, is_json |-> j, body |-> b] :
        c \in Lengths, j \in BOOLEAN, b \in Bodies }
    \cup { [content_length |-> NoLength, is_json |-> TRUE, body |-> b] : b \in Payloads }

BodyRequests ==
    { [content_length |-> NoLength, is_json |-> TRUE, body |-> b] : b \in BodyPayloads }

NormRequests ==
    { [content_length |-> 0, is_json |-> TRUE, body |-> b] :
        b \in {MkPayload(JStr(uHttp), Absent, Absent, Absent, Absent, Absent, Absent,
                         Absent, Absent),
               MkPayload(JStr(uNotAUrl), Absent, Absent, Absent, Absent, Absent, Absent,
                         Absent, Absent)} }

Failures == {[cls |-> "ConnectionError", text |-> "Connection refused"],
             [cls |-> "SSLError", text |-> "certificate verify failed"],
             [cls |-> "Timeout", text |-> "Read timed out"],
             [cls |-> "ValueError", text |-> "timeout cannot be set to a value <= 0"]}

\* 'A', the two bytes of U+00E9, the lead and middle byte of U+20A9, and a byte
\* that occurs in no UTF-8 text
Bytes == {65, 195, 169, 226, 130, 255}

RECURSIVE BytesUpTo(_)
BytesUpTo(n) ==
    IF n = 0 THEN {<<>>}
    ELSE LET shorter == BytesUpTo(n - 1)
         IN  shorter \cup { Append(b, x) : b \in {c \in shorter : Len(c) = n - 1}, x \in Bytes }

hText == << <<<<"C","o","n","t","e","n","t","-","T","y","p","e">>, "text/plain">>,
            <<<<"C","o","n","n","e","c","t","i","o","n">>, "close">> >>

hBinary == << <<<<"c","o","n","t","e","n","t","-","t","y","p","e">>, "application/octet-stream">>,
              <<<<"T","r","a","n","s","f","e","r","-","E","n","c","o","d","i","n","g">>, "chunked">> >>

\* upstream responses with every body of up to one byte over the cap
NormResponses ==
    { [status_code |-> 200, reason |-> "OK", headers |-> h, content |-> c] :
        h \in {hText, hBinary}, c \in BytesUpTo(MAX_RESPONSE_BYTES + 1) }

Responses ==
    { [status_code |-> 200, reason |-> "OK", headers |-> hText, content |-> <<65>>],
      [status_code |-> 404, reason |-> "Not Found", headers |-> hBinary, content |-> <<255>>] }

(***************************************************************************)
(* Specifications                                                          *)
(***************************************************************************)
Next ==
    \/ \E r \in Requests : Proxy(r)
    \/ \E u \in Responses : Returns(u)
    \/ \E e \in Failures : Raises(e)
    \/ NextCall

Spec == Init /\ [][Next]_vars

NextBody ==
    \/ \E r \in BodyRequests : Proxy(r)
    \/ \E u \in Responses : Returns(u)
    \/ \E e \in Failures : Raises(e)
    \/ NextCall

SpecBody == Init /\ [][NextBody]_vars

NextNorm ==
    \/ \E r \in NormRequests : Proxy(r)
    \/ \E u \in NormResponses : Returns(u)
    \/ \E e \in Failures : Raises(e)
    \/ NextCall

SpecNorm == Init /\ [][NextNorm]_vars

(***************************************************************************)
(* The validation rules as the specification states them, read off the     *)
(* request being served                                                    *)
(***************************************************************************)
TooLarge(r) == r.content_length # NoLength /\ r.content_length > MAX_INCOMING_PAYLOAD_BYTES

NotJsonObject(r) == ~r.is_json \/ r.body = Malformed \/ ~IsDict(r.body)

\* the first non-empty of "URL" and "url"
SuppliedURL(p) == Or(Get(p, kURL), Get(p, kurl))

BadURL(p) ==
    LET u == SuppliedURL(p)
    IN  \/ ~Truthy(u)
        \/ ~IsStr(u)
        \/ Scheme(u.s) \notin {sHTTP, sHTTPS}
        \/ Netloc(u.s) = <<>>

\* a value is supplied under "method" and, upper-cased, is not in the allow-set
BadMethod(p) ==
    /\ HasKey(p, kmethod)
    /\ LET m == Lookup(p, kmethod)
       IN  ~IsStr(m) \/ Upper(m.s) \notin ALLOWED_METHODS

\* "header" if present, else "headers" if present
SuppliedHeaders(p) ==
    IF HasKey(p, kheader) THEN Lookup(p, kheader)
    ELSE IF HasKey(p, kheaders) THEN Lookup(p, kheaders)
    ELSE Absent

BadHeaders(p) == SuppliedHeaders(p) # Absent /\ ~IsDict(SuppliedHeaders(p))

\* a timeout is supplied and is no positive number
BadTimeout(p) ==
    /\ HasKey(p, ktimeout)
    /\ LET t == Lookup(p, ktimeout)
       IN  \/ t.t \notin {"num", "str", "bool"}
           \/ FloatOf(t).kind # "finite"
           \/ FloatOf(t).n <= 0

FailsValidation(r) ==
    \/ TooLarge(r)
    \/ NotJsonObject(r)
    \/ BadURL(r.body)
    \/ BadMethod(r.body)
    \/ BadHeaders(r.body)
    \/ BadTimeout(r.body)

Served == pc # "idle"

Issued == call.kind = "call"

(***************************************************************************)
(* Claims                                                                  *)
(***************************************************************************)

\* C1: fail fast.  No outbound call is made for a request that is answered
\* with a 4xx status, nor for a request whose input fails a validation rule.
C1_FailFast ==
    /\ (reply.status \in 400..499 => ncalls = 0)
    /\ (ncalls > 0 => ~FailsValidation(req))

\* C2: the rules are checked in the order 413 (size), 400 (JSON object),
\* 400 (URL), 405 (method), 400 (headers); the answer is that of the first
\* rule that fails, whatever later rules would say.
C2_FirstFailingRule ==
    pc = "responded" =>
        IF TooLarge(req) THEN reply.status = 413
        ELSE IF NotJsonObject(req) THEN reply.status = 400
        ELSE IF BadURL(req.body)
        THEN reply.status = 400 /\ reply.error = "invalid or missing URL"
        ELSE IF BadMethod(req.body) THEN reply.status = 405
        ELSE IF BadHeaders(req.body)
        THEN reply.status = 400 /\ reply.error = "header must be a JSON object/dict"
        ELSE TRUE

\* C3: a request whose target URL is missing, is no string, has a scheme
\* other than http/https or has no network location is answered 400
\* "invalid or missing URL"; an outbound call only ever goes to an http/https
\* URL with a network location.
C3_InvalidURLRejected ==
    /\ (Served /\ ~TooLarge(req) /\ ~NotJsonObject(req) /\ BadURL(req.body)) =>
            /\ pc = "responded"
            /\ reply.status = 400
            /\ reply.error = "invalid or missing URL"
    /\ (Issued => Scheme(call.url) \in {sHTTP, sHTTPS} /\ Netloc(call.url) # <<>>)

\* C4: with a valid URL, every value supplied under "method" that is not in
\* the allow-set after upper-casing (the empty string included) is answered
\* 405 with the sorted allow-set; GET is the method only when the key is
\* absent, and an outbound method is always an upper-cased allowed one.
C4_MethodNotAllowed ==
    /\ (Served /\ ~TooLarge(req) /\ ~NotJsonObject(req) /\ ~BadURL(req.body)
               /\ BadMethod(req.body)) =>
            /\ pc = "responded"
            /\ reply.status = 405
            /\ reply.allowed = Sorted(ALLOWED_METHODS)
    /\ (Issued =>
            /\ call.method \in ALLOWED_METHODS
            /\ call.method = IF HasKey(req.body, kmethod)
                             THEN Upper(Lookup(req.body, kmethod).s)
                             ELSE sGET)

\* C5: with a valid URL and method, a headers value that is present under
\* "header" or "headers" and is no JSON object (falsy ones included) is
\* answered 400 "header must be a JSON object/dict"; the empty default is used
\* only when neither key is present and "header" wins over "headers".
C5_HeadersMustBeObject ==
    /\ (Served /\ ~TooLarge(req) /\ ~NotJsonObject(req) /\ ~BadURL(req.body)
               /\ ~BadMethod(req.body) /\ BadHeaders(req.body)) =>
            /\ pc = "responded"
            /\ reply.status = 400
            /\ reply.error = "header must be a JSON object/dict"
    /\ (Issued =>
            call.kwargs.headers = IF SuppliedHeaders(req.body) = Absent
                                  THEN JObj(<<>>)
                                  ELSE SuppliedHeaders(req.body))

\* C6: the timeout of an outbound call is a positive number, 10 when the key
\* is absent.
C6_TimeoutPositive ==
    Issued =>
        /\ call.kwargs.timeout.kind = "finite"
        /\ call.kwargs.timeout.n > 0
        /\ (~HasKey(req.body, ktimeout) => call.kwargs.timeout.n = 10)

\* the "data" member of the request being served, JNull when absent
SuppliedData == GetDefault(req.body, kdata, JNull)

\* C7: body forwarding.  No "data" (or null): no body.  A string: that string,
\* verbatim, and the headers as supplied.  Any other JSON value, falsy ones
\* included: its JSON serialization.  Never two shapes at once.
C7_BodyForwarding ==
    Issued =>
        /\ ~(call.kwargs.data # Absent /\ call.kwargs.json # Absent)
        /\ (SuppliedData = JNull =>
                /\ call.kwargs.data = Absent
                /\ call.kwargs.json = Absent
                /\ OutboundBody(call.kwargs) = NoBody)
        /\ (IsStr(SuppliedData) =>
                /\ call.kwargs.json = Absent
                /\ OutboundBody(call.kwargs) = [present |-> TRUE, text |-> SuppliedData.s]
                /\ call.kwargs.headers = IF SuppliedHeaders(req.body) = Absent
                                         THEN JObj(<<>>)
                                         ELSE SuppliedHeaders(req.body))
        /\ (SuppliedData # JNull /\ ~IsStr(SuppliedData) =>
                /\ call.kwargs.data = Absent
                /\ OutboundBody(call.kwargs)
                       = [present |-> TRUE, text |-> Dumps(SuppliedData)])

\* C7 witness: a falsy JSON value was handed to the outbound call as json=
C7_FalsyDataForwarded ==
    /\ pc = "forwarding"
    /\ SuppliedData = JNum(0)
    /\ call.kwargs.json = JNum(0)
    /\ OutboundBody(call.kwargs).text = <<"0">>

\* the bytes the caller recovers from the envelope
ReturnedBytes(out) == IF out.is_base64 THEN B64Decode(out.body) ELSE Utf8Encode(out.body)

Answered == upstream.kind = "response"

\* C8: truncation boundary.  A body of length L <= N comes back whole with
\* truncated = false (also when L = N); a longer one comes back as its first N
\* bytes with truncated = true.
C8_TruncationBoundary ==
    Answered =>
        LET content == upstream.resp.content
            L       == Len(content)
            N       == MAX_RESPONSE_BYTES
        IN  /\ reply.out.present
            /\ reply.out.truncated = (L > N)
            /\ Len(ReturnedBytes(reply.out)) = IF L <= N THEN L ELSE N
            /\ (L <= N => ReturnedBytes(reply.out) = content)
            /\ (L > N => ReturnedBytes(reply.out) = SubSeq(content, 1, N))

\* C8 witness: a body of exactly the maximum length came back untruncated
C8_ExactlyMaxNotTruncated ==
    /\ Answered
    /\ Len(upstream.resp.content) = MAX_RESPONSE_BYTES
    /\ ~reply.out.truncated
    /\ ReturnedBytes(reply.out) = upstream.resp.content

\* a code point that UTF-8 may encode: no surrogate, at most U+10FFFF
IsScalar(cp) == cp <= 1114111 /\ ~(55296 <= cp /\ cp <= 57343)

\* b is the UTF-8 encoding of some text: it splits into sequences that are
\* each the encoding of a scalar value
RECURSIVE WellFormedUtf8(_)
WellFormedUtf8(b) ==
    \/ b = <<>>
    \/ \E k \in 1..(IF Len(b) < 4 THEN Len(b) ELSE 4) :
          LET first == SubSeq(b, 1, k)
              cp    == CodePoint(first, k)
          IN  /\ IsScalar(cp)
              /\ Utf8EncodeChar(cp) = first
              /\ WellFormedUtf8(SubSeq(b, k + 1, Len(b)))

\* the bytes left after truncation
Kept(content) ==
    IF Len(content) > MAX_RESPONSE_BYTES THEN SubSeq(content, 1, MAX_RESPONSE_BYTES)
    ELSE content

\* C9: decode-or-base64 on the bytes B left after truncation.  Valid UTF-8:
\* is_base64 = false and body encodes back to B.  Otherwise is_base64 = true
\* and body is the base64 of B.  Nothing else decides, and every upstream
\* response yields a 200 envelope.
C9_DecodeOrBase64 ==
    Answered =>
        LET B == Kept(upstream.resp.content)
        IN  /\ reply.status = 200
            /\ reply.out.present
            /\ reply.out.is_base64 = ~WellFormedUtf8(B)
            /\ (WellFormedUtf8(B) => Utf8Encode(reply.out.body) = B)
            /\ (~WellFormedUtf8(B) =>
                    /\ reply.out.body = B64Encode(B)
                    /\ B64Decode(reply.out.body) = B)

\* C9 witness: a textual body cut inside a multibyte sequence came back as base64
C9_CutMidSequenceIsBase64 ==
    /\ Answered
    /\ WellFormedUtf8(upstream.resp.content)
    /\ reply.out.truncated
    /\ reply.out.is_base64
    /\ B64Decode(reply.out.body) = Kept(upstream.resp.content)

\* the failures of the outbound call the claim names
NetworkTlsTimeout == {"ConnectionError", "SSLError", "Timeout"}

\* C10: single shot.  The outbound call is attempted once and never again; a
\* network, TLS or timeout failure is answered 502 "request_failed" with the
\* error text, and every relay call ends in exactly one response.
C10_SingleShot ==
    /\ ncalls <= 1
    /\ (pc = "forwarding" => ncalls = 1 /\ nreplies = 0)
    /\ (pc = "idle" => ncalls = 0 /\ nreplies = 0)
    /\ (pc = "responded" => nreplies = 1)
    /\ (upstream.kind # "none" => ncalls = 1 /\ pc = "responded")
    /\ (upstream.kind = "exception" /\ upstream.cls \in NetworkTlsTimeout =>
            /\ reply.status = 502
            /\ reply.error = "request_failed"
            /\ reply.details = upstream.text)

\* C10 witness: the outbound call timed out and the caller got the 502
C10_TimeoutAnswered502 ==
    /\ upstream.kind = "exception"
    /\ upstream.cls = "Timeout"
    /\ ncalls = 1
    /\ reply.status = 502
    /\ reply.details = "Read timed out"

====
